---------------------------- MODULE Spec2Model ----------------------------
(***************************************************************************)
(* Formality scoring and grammar-issue shaping of the Research Paper       *)
(* Editor backend: backend/python/formality_checker.py and                 *)
(* backend/python/grammar_checker.py.                                      *)
(*                                                                         *)
(* A text is a sequence of one-character strings.  Scores, confidences and *)
(* average sentence lengths are carried in tenths (round(x, 1) * 10), so   *)
(* 50.0 is 500; the arithmetic before rounding is exact rational           *)
(* arithmetic on a numerator and a denominator.                            *)
(***************************************************************************)
EXTENDS Integers, Sequences, FiniteSets, TLC

(***************************************************************************)
(* Characters and the classes the regular expressions use.                 *)
(***************************************************************************)
UpperSeq ==
  <<"A","B","C","D","E","F","G","H","I","J","K","L","M",
    "N","O","P","Q","R","S","T","U","V","W","X","Y","Z">>

LowerSeq ==
  <<"a","b","c","d","e","f","g","h","i","j","k","l","m",
    "n","o","p","q","r","s","t","u","v","w","x","y","z">>

UpperSet == {UpperSeq[i] : i \in DOMAIN UpperSeq}

LowerSet == {LowerSeq[i] : i \in DOMAIN LowerSeq}

Letters == UpperSet \cup LowerSet

Digits == {"0","1","2","3","4","5","6","7","8","9"}

\* str.split() and str.strip() with no argument work on whitespace.
Whitespace == {" ", "\t", "\n"}

\* \w of the re module (ASCII part).
WordChars == Letters \cup Digits \cup {"_"}

IsWordChar(c) == c \in WordChars

\* The lower-case letter of each upper-case one.
LowerOf ==
  [c \in UpperSet |-> LowerSeq[CHOOSE i \in DOMAIN UpperSeq : UpperSeq[i] = c]]

ToLower(c) == IF c \in UpperSet THEN LowerOf[c] ELSE c

\* str.upper()
ToUpper(c) ==
  IF c \in LowerSet
  THEN UpperSeq[CHOOSE i \in DOMAIN LowerSeq : LowerSeq[i] = c]
  ELSE c

Upper(s) == [i \in DOMAIN s |-> ToUpper(s[i])]

MinOf(S) == CHOOSE x \in S : \A y \in S : x <= y

MaxOf(S) == CHOOSE x \in S : \A y \in S : x >= y

(***************************************************************************)
(* The pattern lists of formality_checker.py, lines 42-58.                 *)
(***************************************************************************)
InformalFillers ==
  << <<"g","o","n","n","a">>,
     <<"w","a","n","n","a">>,
     <<"g","o","t","t","a">>,
     <<"k","i","n","d","a">>,
     <<"s","o","r","t","a">>,
     <<"d","u","n","n","o">>,
     <<"y","a">>,
     <<"y","e","p">>,
     <<"n","o","p","e">>,
     <<"y","e","a","h">>,
     <<"n","a","h">>,
     <<"l","o","l">>,
     <<"o","m","g">>,
     <<"b","t","w">>,
     <<"i","d","k">>,
     <<"i","m","o">>,
     <<"t","b","h">>,
     <<"f","y","i">>,
     <<"a","s","a","p">>,
     <<"b","c">>,
     <<"c","u","z">>,
     <<"c","o","s">>,
     <<"c","y","a">> >>

InformalContractions ==
  << <<"a","i","n","'","t">>,
     <<"c","a","n","'","t">>,
     <<"w","o","n","'","t">>,
     <<"d","o","n","'","t">>,
     <<"i","s","n","'","t">>,
     <<"a","r","e","n","'","t">>,
     <<"w","a","s","n","'","t">>,
     <<"w","e","r","e","n","'","t">>,
     <<"h","a","v","e","n","'","t">>,
     <<"h","a","d","n","'","t">>,
     <<"d","o","e","s","n","'","t">>,
     <<"d","i","d","n","'","t">>,
     <<"c","o","u","l","d","n","'","t">>,
     <<"w","o","u","l","d","n","'","t">>,
     <<"s","h","o","u","l","d","n","'","t">> >>

FormalConnectives ==
  << <<"f","u","r","t","h","e","r","m","o","r","e">>,
     <<"m","o","r","e","o","v","e","r">>,
     <<"c","o","n","s","e","q","u","e","n","t","l","y">>,
     <<"t","h","e","r","e","f","o","r","e">>,
     <<"t","h","u","s">>,
     <<"h","e","n","c","e">>,
     <<"a","c","c","o","r","d","i","n","g","l","y">>,
     <<"n","e","v","e","r","t","h","e","l","e","s","s">>,
     <<"n","o","n","e","t","h","e","l","e","s","s">>,
     <<"n","o","t","w","i","t","h","s","t","a","n","d","i","n","g">> >>

FormalReferences ==
  << <<"r","e","g","a","r","d","i","n","g">>,
     <<"c","o","n","c","e","r","n","i","n","g">>,
     <<"p","e","r","t","a","i","n","i","n","g">>,
     <<"p","u","r","s","u","a","n","t">>,
     <<"h","e","r","e","i","n">>,
     <<"t","h","e","r","e","o","f">>,
     <<"w","h","e","r","e","b","y">>,
     <<"w","h","e","r","e","a","s">>,
     <<"a","l","b","e","i","t">> >>

FormalVerbs ==
  << <<"d","e","m","o","n","s","t","r","a","t","e">>,
     <<"i","n","d","i","c","a","t","e">>,
     <<"s","u","g","g","e","s","t">>,
     <<"p","r","o","p","o","s","e">>,
     <<"c","o","n","c","l","u","d","e">>,
     <<"a","n","a","l","y","s","e">>,
     <<"a","n","a","l","y","z","e">>,
     <<"i","n","v","e","s","t","i","g","a","t","e">>,
     <<"e","x","a","m","i","n","e">>,
     <<"a","s","s","e","s","s">>,
     <<"e","v","a","l","u","a","t","e">> >>

FormalModals ==
  << <<"s","h","a","l","l">>,
     <<"m","a","y">>,
     <<"w","o","u","l","d">>,
     <<"c","o","u","l","d">>,
     <<"o","u","g","h","t">> >>

(***************************************************************************)
(* Matching.  A position p in 1..Len(txt)+1 is the gap before txt[p].      *)
(* Every matcher returns the position after the match, or 0 for no match   *)
(* (no pattern here matches the empty string).                             *)
(***************************************************************************)

\* \b: exactly one side of the gap is a word character.
AtWordBoundary(txt, p) ==
  LET before == p > 1 /\ IsWordChar(txt[p - 1])
      after  == p <= Len(txt) /\ IsWordChar(txt[p])
  IN  before # after

\* The literal w at p; with re.IGNORECASE letters match in either case.
LiteralAt(txt, p, w, ignorecase) ==
  /\ p + Len(w) - 1 <= Len(txt)
  /\ \A k \in DOMAIN w :
        IF ignorecase
        THEN ToLower(txt[p + k - 1]) = ToLower(w[k])
        ELSE txt[p + k - 1] = w[k]

\* \b(w1|w2|...)\b: the first listed word that fits between two boundaries.
WordListEnd(txt, p, words, ignorecase) ==
  IF ~AtWordBoundary(txt, p) THEN 0
  ELSE LET hits == {j \in DOMAIN words :
                      /\ LiteralAt(txt, p, words[j], ignorecase)
                      /\ AtWordBoundary(txt, p + Len(words[j]))}
       IN  IF hits = {} THEN 0 ELSE p + Len(words[MinOf(hits)])

RECURSIVE RunLen(_, _, _)
\* The number of consecutive characters of class from p on.
RunLen(txt, p, class) ==
  IF p <= Len(txt) /\ txt[p] \in class
  THEN 1 + RunLen(txt, p + 1, class)
  ELSE 0

\* [c]{least,}: greedy, nothing follows it in its alternative.
RunEnd(txt, p, class, least) ==
  LET n == RunLen(txt, p, class)
  IN  IF n >= least THEN p + n ELSE 0

\* \b[A-Z]{4,}\b: the longest run of at least 4 class characters that ends
\* on a boundary.  Under re.IGNORECASE the class [A-Z] holds a-z as well.
CapsEnd(txt, p, ignorecase) ==
  IF ~AtWordBoundary(txt, p) THEN 0
  ELSE LET class == IF ignorecase THEN Letters ELSE UpperSet
           n     == RunLen(txt, p, class)
           ks    == {k \in 4..n : AtWordBoundary(txt, p + k)}
       IN  IF ks = {} THEN 0 ELSE p + MaxOf(ks)

\* re.compile(..., re.IGNORECASE) of line 50 and of line 58.
IGNORECASE == TRUE

\* a|b: what a matches at p, else what b matches.
Either(a, b) == IF a # 0 THEN a ELSE b

\* "|".join(_INFORMAL_PATTERNS) at p: the first alternative, in order, that
\* matches.
_INFORMAL_PATTERNS(txt, p, flags) ==
  Either(WordListEnd(txt, p, InformalFillers, flags),
  Either(WordListEnd(txt, p, InformalContractions, flags),
  Either(RunEnd(txt, p, {"!"}, 2),
  Either(RunEnd(txt, p, {"?"}, 2),
  Either(RunEnd(txt, p, {"."}, 3),
         CapsEnd(txt, p, flags))))))

_INFORMAL_RE(txt, p) == _INFORMAL_PATTERNS(txt, p, IGNORECASE)

\* "|".join(_FORMAL_MARKERS) at p.
_FORMAL_MARKERS(txt, p, flags) ==
  Either(WordListEnd(txt, p, FormalConnectives, flags),
  Either(WordListEnd(txt, p, FormalReferences, flags),
  Either(WordListEnd(txt, p, FormalVerbs, flags),
         WordListEnd(txt, p, FormalModals, flags))))

_FORMAL_RE(txt, p) == _FORMAL_MARKERS(txt, p, IGNORECASE)

\* The match at p of the named pattern.
MatchEnd(re, txt, p) ==
  IF re = "informal" THEN _INFORMAL_RE(txt, p) ELSE _FORMAL_RE(txt, p)

RECURSIVE FindallFrom(_, _, _)
\* len(re.findall(txt)) from p on: leftmost matches, none overlapping.
FindallFrom(re, txt, p) ==
  IF p > Len(txt) THEN 0
  ELSE LET e == MatchEnd(re, txt, p)
       IN  IF e = 0
           THEN FindallFrom(re, txt, p + 1)
           ELSE 1 + FindallFrom(re, txt, e)

Findall(re, txt) == FindallFrom(re, txt, 1)

(***************************************************************************)
(* Splitting.                                                              *)
(***************************************************************************)
\* The members of a finite set of numbers, ascending.
Ascending(S) ==
  [i \in 1..Cardinality(S) |->
     CHOOSE x \in S : Cardinality({y \in S : y < x}) = i - 1]

\* re.split(r"[seps]+", txt): the pieces between the runs of separators,
\* the empty ones at the ends included.  A piece starts at 1 and after
\* every run, and ends before the next separator.
SplitRuns(txt, seps) ==
  LET n      == Len(txt)
      starts == {1} \cup {p \in 2..(n + 1) :
                            /\ txt[p - 1] \in seps
                            /\ (p = n + 1 \/ txt[p] \notin seps)}
      stop(s) == MinOf({q \in s..n : txt[q] \in seps} \cup {n + 1})
      order  == Ascending(starts)
  IN  [i \in DOMAIN order |-> SubSeq(txt, order[i], stop(order[i]) - 1)]

SentenceEnd == {".", "!", "?"}

\* str.strip()
Strip(s) ==
  LET keep == {i \in DOMAIN s : s[i] \notin Whitespace}
  IN  IF keep = {} THEN <<>> ELSE SubSeq(s, MinOf(keep), MaxOf(keep))

\* str.split(): the maximal runs of non-whitespace characters.
Split(s) == SelectSeq(SplitRuns(s, Whitespace), LAMBDA w : w # <<>>)

\* A blank test that misses whitespace-only text.
EmptyOnly(txt) == txt = <<>>

\* `not text or not text.strip()`
IsBlank(txt) == txt = <<>> \/ Strip(txt) = <<>>

RECURSIVE SumLen(_)
\* sum(len(s.split()) for s in sentences)
SumLen(sentences) ==
  IF sentences = <<>> THEN 0
  ELSE Len(Split(Head(sentences))) + SumLen(Tail(sentences))

(***************************************************************************)
(* Rounding and the heuristic scorer, formality_checker.py lines 61-92.    *)
(***************************************************************************)

\* round(n / d, 0) for n >= 0, d > 0: to the nearest integer, a tie to the
\* even one.
RoundHalfEven(n, d) ==
  LET q == n \div d
      r == n % d
  IN  IF 2 * r < d THEN q
      ELSE IF 2 * r > d THEN q + 1
      ELSE IF q % 2 = 0 THEN q ELSE q + 1

\* round(n / d, 1), in tenths.
Round1(n, d) == RoundHalfEven(10 * n, d)

Min2(a, b) == IF a <= b THEN a ELSE b

Max2(a, b) == IF a >= b THEN a ELSE b

\* A score left as computed, without the clamp.
Unclamped(num, den) == num

\* max(0, min(100, score)) on the numerator of score = num / den.
ClampScore(num, den) == Max2(0, Min2(100 * den, num))

\* score after lines 73-76, as a numerator over 2 * sentence_count:
\* 50 - 8 * informal_hits + 6 * formal_hits + min((avg - 10) * 1.5, 20)
\* with avg = word_sum / sentence_count.
RawScore(informal_hits, formal_hits, word_sum, sentence_count) ==
  2 * sentence_count * (50 - informal_hits * 8 + formal_hits * 6)
    + Min2(3 * word_sum - 30 * sentence_count, 40 * sentence_count)

LabelOf(num, den) == IF num >= 50 * den THEN "FORMAL" ELSE "INFORMAL"

ConfidenceOf(label, num, den) ==
  IF label = "FORMAL" THEN num ELSE 100 * den - num

_heuristic_check(txt) ==
  LET words         == Split(txt)
      total_words   == Max2(Len(words), 1)
      informal_hits == Findall("informal", txt)
      formal_hits   == Findall("formal", txt)
      pieces        == SplitRuns(txt, SentenceEnd)
      sentences     == SelectSeq([i \in DOMAIN pieces |-> Strip(pieces[i])],
                                 LAMBDA s : s # <<>>)
      word_sum      == SumLen(sentences)
      count         == Max2(Len(sentences), 1)
      den           == 2 * count
      score         == ClampScore(RawScore(informal_hits, formal_hits,
                                           word_sum, count), den)
      label         == LabelOf(score, den)
      confidence    == ConfidenceOf(label, score, den)
  IN  [ label      |-> label,
        confidence |-> Round1(confidence, den),
        score      |-> Round1(score, den),
        method     |-> "heuristic",
        details    |-> [ informal_signals |-> informal_hits,
                         formal_signals   |-> formal_hits,
                         avg_sentence_len |-> Round1(word_sum, count) ] ]

(***************************************************************************)
(* The texts the model draws from.                                         *)
(***************************************************************************)
Scenario1 ==
  <<"I"," ","d","u","n","n","o",","," ","t","h","i","s"," ","i","s"," ","k","i","n","d","a"," ","c","o","n","f","u","s","i","n","g","!","!">>

Scenario2 ==
  <<"F","u","r","t","h","e","r","m","o","r","e",","," ","t","h","e"," ","d","a","t","a"," ","d","e","m","o","n","s","t","r","a","b","l","y"," ","i","n","d","i","c","a","t","e"," ","a"," ","c","o","n","s","i","s","t","e","n","t"," ","t","r","e","n","d",","," ","w","h","i","c","h"," ","t","h","e"," ","c","o","m","m","i","t","t","e","e"," ","s","h","a","l","l"," ","r","e","v","i","e","w"," ","p","u","r","s","u","a","n","t"," ","t","o"," ","e","s","t","a","b","l","i","s","h","e","d"," ","p","r","o","t","o","c","o","l",".">>

\* The texts of the calls: "", " ", "\n \t", "ok", "Hi!!", " a b. ".
CallTexts ==
  { <<>>, <<" ">>, <<"\n"," ","\t">>, <<"o","k">>, <<"H","i","!","!">>,
    <<" ","a"," ","b","."," ">> }

RECURSIVE Repeat(_, _)
Repeat(w, n) == IF n = 0 THEN <<>> ELSE w \o Repeat(w, n - 1)

MaxInformal == 2

MaxFormal == 9

MaxFiller == 4

\* "gonna " i times, "may " f times, a filler c times, then a tail.
BuiltTexts ==
  { Repeat(<<"g","o","n","n","a"," ">>, i) \o Repeat(<<"m","a","y"," ">>, f)
      \o Repeat(filler, c) \o tail :
        i \in 0..MaxInformal, f \in 0..MaxFormal, c \in 0..MaxFiller,
        filler \in { <<"a"," ">>, <<"a","."," ">>, <<"d","a","t","a"," ">> },
        tail \in { <<>>, <<"!","!">> } }

\* "Data", "WOW", "WOWS", "cosine", "don't", "THIS is it", "ya...", "a?? b",
\* "abcd_ AB12", one sentence of LongSentence words, and the two scenarios
\* of the specification.
LongSentence == 24

SampleTexts ==
  { <<"D","a","t","a">>, <<"W","O","W">>, <<"W","O","W","S">>,
    <<"c","o","s","i","n","e">>, <<"d","o","n","'","t">>,
    <<"T","H","I","S"," ","i","s"," ","i","t">>,
    <<"y","a",".",".",".">>, <<"a","?","?"," ","b">>,
    <<"a","b","c","d","_"," ","A","B","1","2">>,
    Repeat(<<"a"," ">>, LongSentence), Scenario1, Scenario2 }

Texts == BuiltTexts \cup SampleTexts \cup CallTexts

\* _heuristic_check of every text of the model, computed once.
HeuristicOf == [t \in Texts |-> _heuristic_check(t)]

(***************************************************************************)
(* Control flow: a call either returns a value or raises.                  *)
(***************************************************************************)
Return(v) == [raised |-> FALSE, done |-> TRUE, value |-> v]

Raise == [raised |-> TRUE, done |-> TRUE, value |-> <<>>]

\* A statement that ends without returning or raising: control goes on.
Pass == [raised |-> FALSE, done |-> FALSE, value |-> <<>>]

\* try: body / except Exception: handler
TryExcept(body, handler) == IF body.raised THEN handler ELSE body

\* first; rest
Then(first, rest) == IF first.done THEN first ELSE rest

\* s[a:b] for 0 <= a, 0 <= b
Slice(s, a, b) ==
  IF a >= Min2(b, Len(s)) THEN <<>> ELSE SubSeq(s, a + 1, Min2(b, Len(s)))

(***************************************************************************)
(* formality_checker.py: the lazily loaded pipeline and check_formality.   *)
(***************************************************************************)
None == 0

\* The denominator of the raw probabilities the classifier hands back: a raw
\* score k stands for the float k / ProbDen.
ProbDen == 16

\* A loader that assigns a local instead of the global: a successful load
\* reports True and leaves the module's handle as it was.
LoadWithoutStore(pipeline, can_load, handle) ==
  IF pipeline # None
  THEN [model_ok |-> TRUE, pipeline |-> pipeline, attempted |-> FALSE]
  ELSE [model_ok |-> can_load, pipeline |-> pipeline, attempted |-> TRUE]

\* _load_pipeline() with the global _pipeline as read on entry; can_load says
\* whether the import and hf_pipeline(...) succeed now, handle is the object
\* hf_pipeline would return.
_load_pipeline(pipeline, can_load, handle) ==
  IF pipeline # None
  THEN [model_ok |-> TRUE, pipeline |-> pipeline, attempted |-> FALSE]
  ELSE TryExcept(
         IF can_load
         THEN Return([model_ok |-> TRUE, pipeline |-> handle,
                      attempted |-> TRUE])
         ELSE Raise,
         Return([model_ok |-> FALSE, pipeline |-> pipeline,
                 attempted |-> TRUE])).value

\* Lines 116-136: the verdict from the classifier's first result.
ModelVerdict(first, txt) ==
  LET raw_label == Upper(first.label)
      raw_score == first.score
      informal  == \E i \in DOMAIN raw_label : raw_label[i] = "0"
      label     == IF informal THEN "INFORMAL" ELSE "FORMAL"
      conf      == IF informal
                   THEN IF 2 * raw_score > ProbDen
                        THEN Round1(100 * (ProbDen - raw_score), ProbDen)
                        ELSE Round1(100 * raw_score, ProbDen)
                   ELSE Round1(100 * raw_score, ProbDen)
      heuristic == HeuristicOf[txt]
  IN  [ label      |-> label,
        confidence |-> conf,
        score      |-> Round1(100 * raw_score, ProbDen),
        method     |-> "model",
        details    |-> heuristic.details ]

\* Lines 107-108.
UnknownVerdict ==
  [ label |-> "UNKNOWN", confidence |-> 0, score |-> 0, method |-> "none",
    details |-> <<>> ]

\* Lines 112-141, after _load_pipeline() returned load; inference is what
\* _pipeline(text[:1000])[0] does on this call.
Classify(txt, load, inference) ==
  Then(IF load.model_ok /\ load.pipeline # None
       THEN TryExcept(IF inference.raised
                      THEN Raise
                      ELSE Return(ModelVerdict(inference.value, txt)),
                      Pass)
       ELSE Pass,
       Return(HeuristicOf[txt]))

\* Whether and how the pipeline was invoked on this call.
InvocationOf(load, inference) ==
  IF load.model_ok /\ load.pipeline # None
  THEN IF inference.raised THEN "raised" ELSE "returned"
  ELSE "none"

\* A check_formality that drops the handle when the invocation raises.
CheckFormalityDroppingHandle(txt, pipeline, can_load, handle, inference) ==
  IF txt = <<>> \/ Strip(txt) = <<>>
  THEN [ out |-> Return(UnknownVerdict), pipeline |-> pipeline,
         attempted |-> FALSE, invocation |-> "none" ]
  ELSE LET load == _load_pipeline(pipeline, can_load, handle)
           how  == InvocationOf(load, inference)
       IN  [ out        |-> Classify(txt, load, inference),
             pipeline   |-> IF how = "raised" THEN None ELSE load.pipeline,
             attempted  |-> load.attempted,
             invocation |-> how ]

check_formality(txt, pipeline, can_load, handle, inference) ==
  IF IsBlank(txt)
  THEN [ out |-> Return(UnknownVerdict), pipeline |-> pipeline,
         attempted |-> FALSE, invocation |-> "none" ]
  ELSE LET load == _load_pipeline(pipeline, can_load, handle)
       IN  [ out        |-> Classify(txt, load, inference),
             pipeline   |-> load.pipeline,
             attempted  |-> load.attempted,
             invocation |-> InvocationOf(load, inference) ]

(***************************************************************************)
(* grammar_checker.py: check_grammar.                                      *)
(***************************************************************************)
SpellingPrefix ==
  <<"M","O","R","F","O","L","O","G","I","K","_","R","U","L","E">>

\* str.startswith
StartsWith(s, prefix) ==
  Len(s) >= Len(prefix) /\ SubSeq(s, 1, Len(prefix)) = prefix

\* Lines 48-58: the issue of one match.
GrammarIssue(txt, m) ==
  [ message      |-> m.message,
    context      |-> m.context,
    bad_word     |-> Slice(txt, m.offset, m.offset + m.errorLength),
    offset       |-> m.offset,
    length       |-> m.errorLength,
    replacements |-> Slice(m.replacements, 0, 3),
    rule_id      |-> m.ruleId,
    category     |-> m.category ]

\* A filter on the exact rule id MORFOLOGIK_RULE.
ExactRuleOnly(m) == m.ruleId = SpellingPrefix

\* A filter on the category instead of the rule id.
TyposCategory(m) == m.category = "TYPOS"

\* Line 45.
IsSpelling(m) == StartsWith(m.ruleId, SpellingPrefix)

RECURSIVE ShapeFrom(_, _, _, _)
\* The loop of lines 43-58 from match i on.
ShapeFrom(txt, ms, i, issues) ==
  IF i > Len(ms) THEN issues
  ELSE IF IsSpelling(ms[i])
       THEN ShapeFrom(txt, ms, i + 1, issues)
       ELSE ShapeFrom(txt, ms, i + 1,
                      Append(issues, GrammarIssue(txt, ms[i])))

\* A check_grammar without the try/except around the tool.
CheckGrammarUnguarded(txt, check) ==
  IF txt = <<>> \/ Strip(txt) = <<>>
  THEN [ out |-> Return(<<>>), invocation |-> "none" ]
  ELSE [ out |-> IF check.raised
                 THEN Raise
                 ELSE Return(ShapeFrom(txt, check.value, 1, <<>>)),
         invocation |-> IF check.raised THEN "raised" ELSE "returned" ]

\* check is what _tool.check(text) does on this call.
check_grammar(txt, check) ==
  IF IsBlank(txt)
  THEN [ out |-> Return(<<>>), invocation |-> "none" ]
  ELSE [ out |-> TryExcept(IF check.raised
                           THEN Raise
                           ELSE Return(ShapeFrom(txt, check.value, 1, <<>>)),
                           Return(<<>>)),
         invocation |-> IF check.raised THEN "raised" ELSE "returned" ]

(***************************************************************************)
(* What the capabilities may answer.                                       *)
(***************************************************************************)
RawLabels ==
  { <<"L","A","B","E","L","_","0">>, <<"L","A","B","E","L","_","1">> }

\* What the classifier may hand back: a label and a probability in [0, 1].
RawResults == [label : RawLabels, score : 0..ProbDen]

MaxMatches == 2

\* Raw matches of the grammar tool: rule ids inside and outside the
\* MORFOLOGIK_RULE family, with 0 to 5 suggestions.
MatchPool ==
  { [ ruleId |-> <<"M","O","R","F","O","L","O","G","I","K","_","R","U","L","E",
                   "_","E","N","_","U","S">>,
      message |-> "Possible spelling mistake found.", context |-> "c1",
      offset |-> 0, errorLength |-> 2,
      replacements |-> <<"r1", "r2", "r3", "r4">>, category |-> "TYPOS" ],
    [ ruleId |-> <<"M","O","R","F","O","L","O","G","I","K","_","R","U","L","E">>,
      message |-> "Possible spelling mistake found.", context |-> "c2",
      offset |-> 1, errorLength |-> 1,
      replacements |-> <<"r1">>, category |-> "GRAMMAR" ],
    [ ruleId |-> <<"M","O","R","F","O","L","O","G","I","K">>,
      message |-> "m3", context |-> "c3",
      offset |-> 3, errorLength |-> 1,
      replacements |-> <<"r1", "r2">>, category |-> "STYLE" ],
    [ ruleId |-> <<"X","_","M","O","R","F","O","L","O","G","I","K","_","R","U",
                   "L","E">>,
      message |-> "m4", context |-> "c4",
      offset |-> 2, errorLength |-> 2,
      replacements |-> <<"r1", "r2", "r3">>, category |-> "STYLE" ],
    [ ruleId |-> <<"E","N","_","A","_","V","S","_","A","N">>,
      message |-> "Use 'an' instead of 'a'.", context |-> "c5",
      offset |-> 1, errorLength |-> 1,
      replacements |-> <<>>, category |-> "GRAMMAR" ],
    [ ruleId |-> <<"E","N","_","C","O","N","T","R","A","C","T","I","O","N","_",
                   "S","P","E","L","L","I","N","G">>,
      message |-> "Possible spelling mistake found.", context |-> "c6",
      offset |-> 0, errorLength |-> 4,
      replacements |-> <<"r1", "r2", "r3", "r4", "r5">>,
      category |-> "TYPOS" ] }

MatchSeqs == UNION {[1..n -> MatchPool] : n \in 0..MaxMatches}

NThreads == 2

Threads == 1..NThreads

\* The classifier's answers in the concurrent runs.
ConcResults == {r \in RawResults : r.score \in {0, ProbDen}}

(***************************************************************************)
(* State.                                                                  *)
(***************************************************************************)
VARIABLES
  _pipeline,   \* the module global: None or the handle hf_pipeline returned
  loadable,    \* environment: the import and hf_pipeline(...) succeed now
  loads,       \* history: how many handles hf_pipeline has returned
  failed,      \* history: some acquisition attempt has failed
  misfired,    \* history: some invocation of the pipeline has raised
  pc,          \* "idle", "called" (a call is pending) or "returned"
  op,          \* the function called: "formality" or "grammar"
  text,        \* its argument
  raised,      \* the call ended by raising to its caller
  result,      \* what it returned
  attempted,   \* the call ran the try block of _load_pipeline
  invocation,  \* the call's use of its capability: "none", "returned", "raised"
  matches,     \* the raw matches _tool.check returned to the call
  threads      \* concurrent callers of check_formality, each at its own place

vars ==
  << _pipeline, loadable, loads, failed, misfired, pc, op, text, raised, result,
     attempted, invocation, matches, threads >>

IdleThread ==
  [ pc |-> "idle", text |-> <<>>, model_ok |-> FALSE, attempted |-> FALSE,
    invocation |-> "none", raised |-> FALSE, result |-> <<>> ]

Init ==
  /\ _pipeline = None
  /\ loadable \in BOOLEAN
  /\ loads = 0
  /\ failed = FALSE
  /\ misfired = FALSE
  /\ pc = "idle"
  /\ op = "formality"
  /\ text = <<>>
  /\ raised = FALSE
  /\ result = <<>>
  /\ attempted = FALSE
  /\ invocation = "none"
  /\ matches = <<>>
  /\ threads = <<>>

(***************************************************************************)
(* Sequential calls: one function at a time.                               *)
(***************************************************************************)
Request(o, t) ==
  /\ pc \in {"idle", "returned"}
  /\ pc' = "called"
  /\ op' = o
  /\ text' = t
  /\ raised' = FALSE
  /\ result' = <<>>
  /\ attempted' = FALSE
  /\ invocation' = "none"
  /\ matches' = <<>>
  /\ UNCHANGED <<_pipeline, loadable, loads, failed, misfired, threads>>

\* check_formality(text) with the classifier answering inference.
Formality(inference) ==
  \E call \in {check_formality(text, _pipeline, loadable, loads + 1, inference)} :
      /\ _pipeline' = call.pipeline
      /\ loads' = IF call.pipeline # _pipeline THEN loads + 1 ELSE loads
      /\ failed' = (failed \/ (call.attempted /\ call.pipeline = None))
      /\ misfired' = (misfired \/ call.invocation = "raised")
      /\ raised' = call.out.raised
      /\ result' = call.out.value
      /\ attempted' = call.attempted
      /\ invocation' = call.invocation
      /\ pc' = "returned"
      /\ UNCHANGED <<loadable, op, text, matches, threads>>

CheckFormality ==
  /\ pc = "called"
  /\ op = "formality"
  /\ \/ Formality(Raise)
     \/ \E r \in RawResults : Formality(Return(r))

\* check_grammar(text) with the tool answering check.
Grammar(check) ==
  \E call \in {check_grammar(text, check)} :
      /\ raised' = call.out.raised
      /\ result' = call.out.value
      /\ invocation' = call.invocation
      /\ matches' = IF call.invocation = "returned" THEN check.value ELSE <<>>
      /\ pc' = "returned"
      /\ UNCHANGED <<_pipeline, loadable, loads, failed, misfired, op, text,
                     attempted, threads>>

CheckGrammar ==
  /\ pc = "called"
  /\ op = "grammar"
  /\ \/ Grammar(Raise)
     \/ \E ms \in MatchSeqs : Grammar(Return(ms))

\* The model stops or starts being downloadable or importable.
NetworkDown ==
  /\ loadable
  /\ loadable' = FALSE
  /\ UNCHANGED <<_pipeline, loads, failed, misfired, pc, op, text, raised,
                 result, attempted, invocation, matches, threads>>

NetworkUp ==
  /\ ~loadable
  /\ loadable' = TRUE
  /\ UNCHANGED <<_pipeline, loads, failed, misfired, pc, op, text, raised,
                 result, attempted, invocation, matches, threads>>

Next ==
  \/ \E o \in {"formality", "grammar"}, t \in CallTexts : Request(o, t)
  \/ CheckFormality
  \/ CheckGrammar
  \/ NetworkDown
  \/ NetworkUp

Spec == Init /\ [][Next]_vars

(***************************************************************************)
(* The scorer and the orchestrator as functions of one call's inputs: the  *)
(* first call of a process, on any of Texts.                               *)
(***************************************************************************)
InitScoring ==
  /\ _pipeline = None
  /\ loadable \in BOOLEAN
  /\ loads = 0
  /\ failed = FALSE
  /\ misfired = FALSE
  /\ pc = "called"
  /\ op = "formality"
  /\ text \in Texts
  /\ raised = FALSE
  /\ result = <<>>
  /\ attempted = FALSE
  /\ invocation = "none"
  /\ matches = <<>>
  /\ threads = <<>>

NextScoring == CheckFormality

SpecScoring == InitScoring /\ [][NextScoring]_vars

(***************************************************************************)
(* Concurrent callers of check_formality.  A thread can be preempted       *)
(* between reading _pipeline on line 24 and storing to it on line 29       *)
(* (hf_pipeline loads the model in between), and between returning from    *)
(* _load_pipeline and reading _pipeline again on line 112.                 *)
(***************************************************************************)
InitConc ==
  /\ _pipeline = None
  /\ loadable \in BOOLEAN
  /\ loads = 0
  /\ failed = FALSE
  /\ misfired = FALSE
  /\ pc = "idle"
  /\ op = "formality"
  /\ text = <<>>
  /\ raised = FALSE
  /\ result = <<>>
  /\ attempted = FALSE
  /\ invocation = "none"
  /\ matches = <<>>
  /\ threads = [t \in Threads |-> IdleThread]

\* Lines 106-110 and 24-25: the call, up to the test of _pipeline.
ThreadCall(t, txt) ==
  /\ threads[t].pc = "idle"
  /\ threads' =
       [threads EXCEPT ![t] =
          IF IsBlank(txt)
          THEN [IdleThread EXCEPT !.pc = "done", !.text = txt,
                                  !.result = UnknownVerdict]
          ELSE IF _pipeline # None
          THEN [IdleThread EXCEPT
                  !.pc = "loaded", !.text = txt,
                  !.model_ok = _load_pipeline(_pipeline, loadable,
                                              loads + 1).model_ok]
          ELSE [IdleThread EXCEPT !.pc = "loading", !.text = txt]]
  /\ UNCHANGED <<_pipeline, loadable, loads, failed, misfired, pc, op, text,
                 raised, result, attempted, invocation, matches>>

\* Lines 26-39: the try block of a thread that found _pipeline unset.
ThreadLoad(t) ==
  /\ threads[t].pc = "loading"
  /\ \E load \in {_load_pipeline(None, loadable, loads + 1)} :
       /\ _pipeline' = IF load.model_ok THEN load.pipeline ELSE _pipeline
       /\ loads' = IF load.model_ok THEN loads + 1 ELSE loads
       /\ failed' = (failed \/ ~load.model_ok)
       /\ threads' = [threads EXCEPT ![t].pc = "loaded",
                                     ![t].model_ok = load.model_ok,
                                     ![t].attempted = load.attempted]
  /\ UNCHANGED <<loadable, misfired, pc, op, text, raised, result, attempted,
                 invocation, matches>>

\* Lines 112-141 with the classifier answering inference.
Finish(t, inference) ==
  \E load \in {[model_ok |-> threads[t].model_ok, pipeline |-> _pipeline]} :
    \E out \in {Classify(threads[t].text, load, inference)} :
       /\ misfired' = (misfired \/ InvocationOf(load, inference) = "raised")
       /\ threads' = [threads EXCEPT
                        ![t].pc = "done",
                        ![t].raised = out.raised,
                        ![t].result = out.value,
                        ![t].invocation = InvocationOf(load, inference)]

ThreadFinish(t) ==
  /\ threads[t].pc = "loaded"
  /\ \/ Finish(t, Raise)
     \/ \E r \in ConcResults : Finish(t, Return(r))
  /\ UNCHANGED <<_pipeline, loadable, loads, failed, pc, op, text, raised,
                 result, attempted, invocation, matches>>

\* The caller takes the result; the thread serves the next request.
ThreadReturn(t) ==
  /\ threads[t].pc = "done"
  /\ threads' = [threads EXCEPT ![t] = IdleThread]
  /\ UNCHANGED <<_pipeline, loadable, loads, failed, misfired, pc, op, text,
                 raised, result, attempted, invocation, matches>>

NextConc ==
  \/ \E t \in Threads, txt \in CallTexts : ThreadCall(t, txt)
  \/ \E t \in Threads : ThreadLoad(t)
  \/ \E t \in Threads : ThreadFinish(t)
  \/ \E t \in Threads : ThreadReturn(t)
  \/ NetworkDown
  \/ NetworkUp

SpecConc == InitConc /\ [][NextConc]_vars

(***************************************************************************)
(* Properties.  The terms below are stated on the state alone, apart from  *)
(* the operators that model the code.                                      *)
(***************************************************************************)

\* A text with a character that is not whitespace.
HasContent(s) == \E i \in DOMAIN s : s[i] \notin Whitespace

\* This step is a call of f returning.
Returns(f) == pc = "called" /\ op = f /\ pc' = "returned"

\* A call of f has returned.
Returned(f) == pc = "returned" /\ op = f

\* The rule identifier begins with MORFOLOGIK_RULE.
InSpellingFamily(id) ==
  /\ Len(id) >= Len(SpellingPrefix)
  /\ \A k \in DOMAIN SpellingPrefix : id[k] = SpellingPrefix[k]

----------------------------------------------------------------------------
----------------------------------------------------------------------------
\* C2: for every verdict returned on non-empty text, by the heuristic or by
\* the model, label is FORMAL exactly when score >= 50, confidence is score
\* when FORMAL and 100 - score when INFORMAL (values in tenths).
C2_LabelMatchesScore ==
  (Returned("formality") /\ HasContent(text))
    => /\ (result.label = "FORMAL") = (result.score >= 500)
       /\ result.label = "FORMAL" => result.confidence = result.score
       /\ result.label = "INFORMAL" => result.confidence = 1000 - result.score

----------------------------------------------------------------------------
\* The informal pattern as C3 describes it: the closed lists in any case,
\* the punctuation runs, and a word of at least 4 letters all of them
\* upper-case.
ClaimedInformalEnd(s, p) ==
  Either(WordListEnd(s, p, InformalFillers, TRUE),
  Either(WordListEnd(s, p, InformalContractions, TRUE),
  Either(RunEnd(s, p, {"!"}, 2),
  Either(RunEnd(s, p, {"?"}, 2),
  Either(RunEnd(s, p, {"."}, 3),
         CapsEnd(s, p, FALSE))))))

RECURSIVE ClaimedInformalFrom(_, _)
ClaimedInformalFrom(s, p) ==
  IF p > Len(s) THEN 0
  ELSE LET e == ClaimedInformalEnd(s, p)
       IN  IF e = 0
           THEN ClaimedInformalFrom(s, p + 1)
           ELSE 1 + ClaimedInformalFrom(s, e)

\* C3: informal_signals counts the words of the closed lists, the runs of
\* "!!", "??" and "...", and the words of 4 or more letters that are all
\* upper-case, and nothing else; the formal sentence of Scenario 2 has no
\* informal signal and gets label FORMAL with score > 50.
C3_InformalSignals ==
  (Returned("formality") /\ HasContent(text))
    => /\ result.details.informal_signals = ClaimedInformalFrom(text, 1)
       /\ (text = Scenario2 /\ result.method = "heuristic")
            => /\ result.details.informal_signals = 0
               /\ result.label = "FORMAL"
               /\ result.score > 500

----------------------------------------------------------------------------
\* C4: with concurrent first calls the model is loaded at most once in
\* total, and once the handle is set it is never written again.
C4_AcquiredOnce ==
  [][ /\ loads' <= 1
      /\ _pipeline # None => _pipeline' = _pipeline ]_vars

----------------------------------------------------------------------------
\* The shape of a returned verdict.
IsVerdict(v) ==
  /\ DOMAIN v = {"label", "confidence", "score", "method", "details"}
  /\ v.label \in {"FORMAL", "INFORMAL", "UNKNOWN"}
  /\ v.method \in {"model", "heuristic", "none"}

\* The shape of a returned issue.
IsIssue(v) ==
  DOMAIN v = {"message", "context", "bad_word", "offset", "length",
              "replacements", "rule_id", "category"}

\* C5: no call raises to its caller, whatever acquisition and invocation do:
\* check_formality returns a verdict and check_grammar a sequence of issues;
\* check_grammar returns the empty sequence when the tool's check raises; and
\* check_formality returns exactly the heuristic verdict of the whole text,
\* method "heuristic", when the classifier is unavailable or its invocation
\* raises.
C5_NeverRaises ==
  /\ ~raised
  /\ Returned("grammar")
       => /\ \A j \in DOMAIN result : IsIssue(result[j])
          /\ DOMAIN result = 1..Len(result)
          /\ invocation = "raised" => result = <<>>
  /\ Returned("formality")
       => /\ IsVerdict(result)
          /\ (HasContent(text) /\ invocation # "returned")
               => /\ result.method = "heuristic"
                  /\ result = _heuristic_check(text)

\* A call whose capability raised has returned.
C5_Witness == pc = "returned" /\ invocation = "raised"

----------------------------------------------------------------------------
----------------------------------------------------------------------------
\* The positions of the raw matches outside the spelling family.
Kept == {i \in DOMAIN matches : ~InSpellingFamily(matches[i].ruleId)}

\* C7: on non-empty text check_grammar returns one issue per raw match whose
\* rule identifier does not begin with the spelling prefix, in the tool's
\* order; each issue copies offset and length, bad_word is
\* text[offset:offset+length], and replacements are the first min(3, n) raw
\* suggestions in order.
C7_Shaping ==
  (Returned("grammar") /\ invocation = "returned")
    => /\ Len(result) = Cardinality(Kept)
       /\ \A j \in DOMAIN result :
            LET m == matches[Ascending(Kept)[j]]
                r == result[j]
                n == Len(m.replacements)
                span == {k \in 1..m.errorLength : m.offset + k <= Len(text)}
            IN  /\ r.rule_id = m.ruleId
                /\ ~InSpellingFamily(r.rule_id)
                /\ r.offset = m.offset
                /\ r.length = m.errorLength
                /\ r.message = m.message
                /\ r.context = m.context
                /\ r.category = m.category
                /\ Len(r.bad_word) = Cardinality(span)
                /\ \A k \in span : r.bad_word[k] = text[m.offset + k]
                /\ Len(r.replacements) = (IF n < 3 THEN n ELSE 3)
                /\ \A k \in DOMAIN r.replacements :
                     r.replacements[k] = m.replacements[k]

\* Spelling matches were dropped, and a kept match with more than 3
\* suggestions was cut.
C7_Witness ==
  /\ Returned("grammar")
  /\ invocation = "returned"
  /\ result # <<>>
  /\ Len(result) < Len(matches)
  /\ \E i \in Kept : Len(matches[i].replacements) > 3

----------------------------------------------------------------------------
\* C8 as stated: no returned issue has category "TYPOS".
C8_NoTypos ==
  Returned("grammar") => \A j \in DOMAIN result : result[j].category # "TYPOS"

\* C8 amended: what check_grammar excludes is decided by the rule identifier
\* alone.  No returned issue has a rule identifier beginning with
\* MORFOLOGIK_RULE, whatever its category; a raw match of category "TYPOS"
\* with any other rule identifier is returned, category "TYPOS" included.
C8_SpellingFamilyOnly ==
  (Returned("grammar") /\ invocation = "returned")
    => /\ \A j \in DOMAIN result : ~InSpellingFamily(result[j].rule_id)
       /\ \A i \in DOMAIN matches :
            (matches[i].category = "TYPOS"
               /\ ~InSpellingFamily(matches[i].ruleId))
              => \E j \in DOMAIN result :
                   /\ result[j].rule_id = matches[i].ruleId
                   /\ result[j].category = "TYPOS"

\* An issue of category "TYPOS" was returned next to a dropped spelling match.
C8_Witness ==
  /\ Returned("grammar")
  /\ \E j \in DOMAIN result : result[j].category = "TYPOS"
  /\ \E i \in DOMAIN matches : InSpellingFamily(matches[i].ruleId)

----------------------------------------------------------------------------
\* C9: every returned verdict has score and confidence in [0, 100] (0..1000
\* in tenths), on the heuristic path for every count of signals and every
\* sentence length, on the model path for every raw probability and label.
C9_Ranges ==
  Returned("formality")
    => /\ result.score \in 0..1000
       /\ result.confidence \in 0..1000

\* A heuristic verdict whose score was clamped at 0: the informal penalties
\* exceed the base, the formal bonus and the largest sentence bonus.
C9_Witness ==
  /\ Returned("formality")
  /\ result.method = "heuristic"
  /\ result.score = 0
  /\ 8 * result.details.informal_signals
       > 50 + 6 * result.details.formal_signals + 20

----------------------------------------------------------------------------
\* C10: once the handle is set it stays set to the same handle and nothing
\* is acquired again; a call on non-empty text then invokes the pipeline, an
\* invocation that raises makes that call alone return the heuristic
\* verdict, and a call whose invocation returns gives method "model", also
\* after earlier invocations have raised.
C10_AvailableIsTerminal ==
  [][ _pipeline # None
        => /\ _pipeline' = _pipeline
           /\ loads' = loads
           /\ (Returns("formality") /\ HasContent(text))
                => /\ ~attempted'
                   /\ invocation' \in {"returned", "raised"}
                   /\ invocation' = "raised" => result'.method = "heuristic"
                   /\ invocation' = "returned" => result'.method = "model" ]_vars

\* After an invocation has raised, a later call on the same handle, with no
\* new acquisition, has returned the model's verdict.
C10_Witness ==
  /\ Returned("formality")
  /\ misfired
  /\ ~attempted
  /\ invocation = "returned"
  /\ _pipeline # None
  /\ result.method = "model"

=============================================================================
